---- MODULE Spec2Model ----
(***************************************************************************)
(* Cache-aside data access layer (BaseDataService) of the catalog search   *)
(* service: get_by_id and _get_data over a Redis cache and an              *)
(* Elasticsearch backend, with the genre_details endpoint as consumer.     *)
(*                                                                         *)
(* Every "await" of the source is one atomic step on the shared stores;    *)
(* the code between two awaits runs without interleaving (asyncio).        *)
(* Each process runs one call; a later call is another process.            *)
(***************************************************************************)
EXTENDS Integers, Sequences, FiniteSets, TLC

VARIABLES redis_str,   \* Redis string keys: key -> [value, expireAt]
          redis_list,  \* Redis list keys: key -> sequence of payloads
          now,         \* Redis server clock, in seconds
          es,          \* Elasticsearch: index name -> [exists, docs]
          redisUp,     \* Redis reachable (a call on it raises when FALSE)
          esUp,        \* Elasticsearch reachable
          updates,     \* number of backend changes so far
          call         \* per process: the frame of its get_by_id / _get_data call

vars == <<redis_str, redis_list, now, es, redisUp, esUp, updates, call>>

(***************************************************************************)
(* Bounds of the model.                                                    *)
(***************************************************************************)
NumProcs == 3
MaxSize == 2
MaxTicks == 3
MaxUpdates == 1
MaxInFlight == 2
MaxFaults == 1
MaxCalls == 2

Procs == 1..NumProcs
Sizes == 1..MaxSize

(***************************************************************************)
(* Program constants and the service's construction.                       *)
(***************************************************************************)
\* Variant of CACHE_EXPIRE_IN_SECONDS: the factors added, not multiplied
CACHE_EXPIRE_SUM == 60 + 5

CACHE_EXPIRE_IN_SECONDS == 60 * 5

\* self.index_name of the service instance behind genre_details
index_name == "genres"

\* The clock advances in steps of half a TTL window.
TickStep == CACHE_EXPIRE_IN_SECONDS \div 2

DocIds == {"g1"}

MatchAll == "{'query': {'match_all': {}}}"
Bodies == {MatchAll}

\* index_name argument of _get_data: "" stands for the default None
IndexArgs == {"", "movies"}

(***************************************************************************)
(* Python values.  A raw payload (bytes / str) is a sequence; None and     *)
(* the empty payload are both the empty sequence, the two being equally    *)
(* falsy in "if not data".  A model instance is a record [id, name].       *)
(***************************************************************************)
NoData == <<>>

Truthy(v) == Len(v) > 0

\* MODELS[self.index_name](**source): pydantic validation of a backend
\* document; a source without the required fields raises ValidationError.
ModelValid(source) == {"id", "name"} \subseteq DOMAIN source

Model(source) == [id |-> source.id, name |-> source.name]

\* Variant of json: the payload carries the call's own rendering, not the
\* fields alone
json_Unstable(doc) == <<doc.id, doc.name, "extra">>

\* doc.json()
json(doc) == <<doc.id, doc.name>>

\* MODELS[self.index_name].parse_raw(raw): raises on a payload that is not
\* the JSON of a model of the bound type.
ParseValid(raw) == Len(raw) = 2

parse_raw(raw) == [id |-> raw[1], name |-> raw[2]]

(***************************************************************************)
(* Elasticsearch contents.                                                 *)
(***************************************************************************)
Doc(i, n) == [_id |-> i, _source |-> [id |-> i, name |-> n]]

BadDoc(i) == [_id |-> i, _source |-> [id |-> i]]

\* a document of the movies index: it carries fields of its own besides
\* those a genre has
FilmDoc(i, n) == [_id |-> i, _source |-> [id |-> i, name |-> n, title |-> n]]

Movies == [exists |-> TRUE, docs |-> <<FilmDoc("m1", "Drama")>>]

\* the genres index is not created yet
EsMissing == [genres |-> [exists |-> FALSE, docs |-> <<>>], movies |-> Movies]

\* the genres index holds no document
EsEmpty == [genres |-> [exists |-> TRUE, docs |-> <<>>], movies |-> Movies]

EsV1 == [genres |-> [exists |-> TRUE,
                     docs |-> <<Doc("g1", "Drama"), Doc("g2", "Comedy"), Doc("g3", "Drama")>>],
         movies |-> Movies]

EsV2 == [genres |-> [exists |-> TRUE,
                     docs |-> <<Doc("g1", "Tragedy")>>],
         movies |-> Movies]

EsBad == [genres |-> [exists |-> TRUE, docs |-> <<BadDoc("g1")>>], movies |-> Movies]

ElasticStates == {EsMissing, EsEmpty, EsV1, EsV2}

\* elastic.get(index, id): the documents stored under that id
EsGet(index, id) ==
    LET d == es[index].docs
    IN  {d[i] : i \in {j \in 1..Len(d) : d[j]._id = id}}

Matches(body, source) == body = MatchAll

RECURSIVE Filter(_, _)
Filter(body, docs) ==
    IF docs = <<>> THEN <<>>
    ELSE IF Matches(body, Head(docs)._source)
         THEN <<Head(docs)>> \o Filter(body, Tail(docs))
         ELSE Filter(body, Tail(docs))

\* elastic.search(index, body)['hits']['hits'], in backend order; the size
\* argument of _get_data is not part of the request.
EsSearch(index, body) == Filter(body, es[index].docs)

(***************************************************************************)
(* Redis commands.                                                         *)
(***************************************************************************)
\* GET key: the value, or None
RedisGet(key) == IF key \in DOMAIN redis_str THEN redis_str[key].value ELSE NoData

\* SET key value EX expire
RedisSet(key, value, expire) ==
    [k \in DOMAIN redis_str \cup {key} |->
        IF k = key THEN [value |-> value, expireAt |-> now + expire] ELSE redis_str[k]]

\* LRANGE key start stop: both ends are inclusive, positions count from 0
RedisLRange(key, start, stop) ==
    IF key \in DOMAIN redis_list
    THEN SubSeq(redis_list[key], start + 1, IF stop + 1 < Len(redis_list[key])
                                            THEN stop + 1 ELSE Len(redis_list[key]))
    ELSE <<>>

\* RPUSH key v1 v2 ...
RedisRPush(key, values) ==
    [k \in DOMAIN redis_list \cup {key} |->
        IF k \in DOMAIN redis_list
        THEN (IF k = key THEN redis_list[k] \o values ELSE redis_list[k])
        ELSE values]

\* Expiry of the string keys whose TTL has elapsed at time t
Expire(t) == [k \in {j \in DOMAIN redis_str : redis_str[j].expireAt > t} |-> redis_str[k]]

(***************************************************************************)
(* Cache keys.                                                             *)
(***************************************************************************)
\* hash(str) of the running interpreter: fixed for the process, distinct on
\* the strings of the model.
PyHash(s) ==
    CASE s = MatchAll \o "genres" -> 7301
      [] s = MatchAll \o "movies" -> 0 - 4412
      [] OTHER -> 1

_get_hash(kwargs) == ToString(PyHash(kwargs))

\* f'{self.index_name}{doc_id}'
ItemKey(id) == index_name \o id

\* the un-awaited self.redis.exists(doc_id) is a coroutine object, which is
\* truthy whatever the key and whatever the cache holds
exists_unawaited(id) == TRUE

(***************************************************************************)
(* Call frames.                                                            *)
(***************************************************************************)
Idle == [pc |-> "idle", op |-> "", doc_id |-> "", body |-> "", size |-> 0,
         index |-> "", redis_key |-> "", data |-> <<>>, outcome |-> "",
         exc |-> "", hit |-> FALSE, esCalls |-> 0, writes |-> 0,
         response |-> "", start |-> 0, ord |-> 0, at |-> 0,
         exists_key |-> "", get_key |-> "", read_at |-> 0]

Done(p) == call[p].pc = "done"

\* Bookkeeping of a call's place in the run: start is the number of calls
\* completed when it started, ord its rank among the completed calls and
\* at the clock at its completion.
NumDone == Cardinality({q \in DOMAIN call : call[q].pc = "done"})

Finish(f) == [f EXCEPT !.pc = "done", !.ord = NumDone + 1, !.at = now]

\* genre_details: None becomes 404, a record 200, an exception a server error
genre_details(op, outcome) ==
    IF op # "get_by_id" THEN ""
    ELSE IF outcome = "None" THEN "HTTPStatus.NOT_FOUND"
    ELSE IF outcome = "returned" THEN "HTTPStatus.OK"
    ELSE "HTTPStatus.INTERNAL_SERVER_ERROR"

Return(f, data) ==
    [Finish(f) EXCEPT !.data = data, !.outcome = "returned",
              !.response = genre_details(f.op, "returned")]

ReturnNone(f) ==
    [Finish(f) EXCEPT !.data = <<>>, !.outcome = "None",
              !.response = genre_details(f.op, "None")]

Raise(f, e) ==
    [Finish(f) EXCEPT !.data = <<>>, !.outcome = "raised", !.exc = e,
              !.response = genre_details(f.op, "raised")]

Init ==
    /\ redis_str = [k \in {} |-> 0]
    /\ redis_list = [k \in {} |-> 0]
    /\ now = 0
    /\ es \in ElasticStates
    /\ redisUp = TRUE
    /\ esUp = TRUE
    /\ updates = 0
    /\ call = [p \in Procs |-> Idle]

(***************************************************************************)
(* get_by_id                                                               *)
(***************************************************************************)
\* A process starts its call only after the processes before it have
\* started theirs (the processes are interchangeable).
InFlight == {q \in Procs : call[q].pc \notin {"idle", "done"}}

CanStart(p) ==
    /\ call[p].pc = "idle"
    /\ \A q \in Procs : q < p => call[q].pc # "idle"
    /\ Cardinality(InFlight) < MaxInFlight

Frame(p) == UNCHANGED <<redis_str, redis_list, now, es, redisUp, esUp, updates>>

StartGetById(p, id) ==
    /\ CanStart(p)
    /\ call' = [call EXCEPT ![p] = [Idle EXCEPT !.pc = "gi_cache", !.op = "get_by_id",
                                                !.doc_id = id,
                                                !.start = NumDone]]
    /\ Frame(p)

\* Variant of ItemFromCacheStep: the cache is not consulted
ItemFromCacheStep_NoCache(f) == [f EXCEPT !.pc = "gi_elastic"]

\* _get_item_from_cache, then the "if not data" of get_by_id and, on a hit,
\* parse_raw and return
\* (exists_key and get_key record the keys handed to self.redis.exists and
\* to self.redis.get)
ItemFromCacheStep(f) ==
    LET e == [f EXCEPT !.exists_key = f.doc_id]
        g == [e EXCEPT !.get_key = ItemKey(f.doc_id)]
    IN  IF ~exists_unawaited(f.doc_id) THEN [e EXCEPT !.pc = "gi_elastic"]
        ELSE IF ~redisUp THEN Raise(g, "ConnectionError")
        ELSE LET data == RedisGet(ItemKey(f.doc_id))
             IN  IF ~Truthy(data) THEN [g EXCEPT !.pc = "gi_elastic"]
                 ELSE IF ~ParseValid(data) THEN Raise(g, "ValidationError")
                 ELSE Return([g EXCEPT !.hit = TRUE], <<parse_raw(data)>>)

\* Variant of GetItemFromCache: a hit takes the entry out of the cache
GetItemFromCache_Del(p) ==
    /\ call[p].pc = "gi_cache"
    /\ call' = [call EXCEPT ![p] = ItemFromCacheStep(call[p])]
    /\ redis_str' = IF ItemFromCacheStep(call[p]).hit
                    THEN [k \in DOMAIN redis_str \ {ItemKey(call[p].doc_id)} |-> redis_str[k]]
                    ELSE redis_str
    /\ UNCHANGED <<redis_list, now, es, redisUp, esUp, updates>>

\* Variant of GetItemFromCache: a hit writes the entry back with a fresh TTL
GetItemFromCache_Touch(p) ==
    /\ call[p].pc = "gi_cache"
    /\ call' = [call EXCEPT ![p] = ItemFromCacheStep(call[p])]
    /\ redis_str' = IF ItemFromCacheStep(call[p]).hit
                    THEN RedisSet(ItemKey(call[p].doc_id), RedisGet(ItemKey(call[p].doc_id)),
                                  CACHE_EXPIRE_IN_SECONDS)
                    ELSE redis_str
    /\ UNCHANGED <<redis_list, now, es, redisUp, esUp, updates>>

GetItemFromCache(p) ==
    /\ call[p].pc = "gi_cache"
    /\ call' = [call EXCEPT ![p] = ItemFromCacheStep(call[p])]
    /\ Frame(p)

\* Variant of ItemFromElasticStep: NotFoundError is not caught
ItemFromElasticStep_NoCatch(f) ==
    LET g == [f EXCEPT !.esCalls = @ + 1]
        found == EsGet(index_name, f.doc_id)
    IN  IF ~esUp THEN Raise(g, "ConnectionError")
        ELSE IF ~es[index_name].exists \/ found = {} THEN Raise(g, "NotFoundError")
        ELSE LET doc == CHOOSE d \in found : TRUE
             IN  IF ~ModelValid(doc._source) THEN Raise(g, "ValidationError")
                 ELSE [g EXCEPT !.pc = "gi_put", !.data = <<Model(doc._source)>>]

\* Variant of ItemFromElasticStep: a request that fails on the transport is
\* issued a second time before the failure is raised
ItemFromElasticStep_Retry(f) ==
    LET g == [f EXCEPT !.esCalls = @ + 1]
        found == EsGet(index_name, f.doc_id)
    IN  IF ~esUp THEN Raise([g EXCEPT !.esCalls = @ + 1], "ConnectionError")
        ELSE IF ~es[index_name].exists \/ found = {} THEN ReturnNone(g)
        ELSE LET doc == CHOOSE d \in found : TRUE
             IN  IF ~ModelValid(doc._source) THEN Raise(g, "ValidationError")
                 ELSE [g EXCEPT !.pc = "gi_put", !.data = <<Model(doc._source)>>]

\* _get_item_from_elastic, then the "if not data: return None" of get_by_id
ItemFromElasticStep(f) ==
    LET g == [f EXCEPT !.esCalls = @ + 1]
        found == EsGet(index_name, f.doc_id)
    IN  IF ~esUp THEN Raise(g, "ConnectionError")
        ELSE IF ~es[index_name].exists \/ found = {} THEN ReturnNone(g)
        ELSE LET doc == CHOOSE d \in found : TRUE
             IN  IF ~ModelValid(doc._source) THEN Raise(g, "ValidationError")
                 ELSE [g EXCEPT !.pc = "gi_put", !.data = <<Model(doc._source)>>]

\* Variant of GetItemFromElastic: a not-found answer is remembered in the
\* cache under the key of the id
GetItemFromElastic_CacheNone(p) ==
    /\ call[p].pc = "gi_elastic"
    /\ call' = [call EXCEPT ![p] = ItemFromElasticStep(call[p])]
    /\ redis_str' = IF ItemFromElasticStep(call[p]).outcome = "None"
                    THEN RedisSet(ItemKey(call[p].doc_id), <<"null">>, CACHE_EXPIRE_IN_SECONDS)
                    ELSE redis_str
    /\ UNCHANGED <<redis_list, now, es, redisUp, esUp, updates>>

GetItemFromElastic(p) ==
    /\ call[p].pc = "gi_elastic"
    /\ call' = [call EXCEPT ![p] = ItemFromElasticStep(call[p])]
    /\ Frame(p)

\* the frame of a call in flight, with the clock of its backend request
Timed(g) == IF g.pc = "done" THEN g ELSE [g EXCEPT !.read_at = now]

\* GetItemFromElastic in runs that follow the clock from the backend
\* request to the cache write
GetItemFromElasticTimed(p) ==
    /\ call[p].pc = "gi_elastic"
    /\ call' = [call EXCEPT ![p] = Timed(ItemFromElasticStep(call[p]))]
    /\ Frame(p)

\* Variant of PutItemToCache: the record is returned without the cache write
PutItemToCache_NoWrite(p) ==
    /\ call[p].pc = "gi_put"
    /\ call' = [call EXCEPT ![p] = Return(call[p], call[p].data)]
    /\ UNCHANGED <<redis_str, redis_list, now, es, redisUp, esUp, updates>>

\* Variant of PutItemToCache: the key is the id without the index name
PutItemToCache_BareKey(p) ==
    /\ call[p].pc = "gi_put"
    /\ LET f == call[p]
           doc == f.data[1]
       IN  IF ~redisUp
           THEN /\ call' = [call EXCEPT ![p] = Raise(f, "ConnectionError")]
                /\ UNCHANGED redis_str
           ELSE /\ redis_str' = RedisSet(doc.id, json(doc), CACHE_EXPIRE_IN_SECONDS)
                /\ call' = [call EXCEPT ![p] = Return([f EXCEPT !.writes = @ + 1], f.data)]
    /\ UNCHANGED <<redis_list, now, es, redisUp, esUp, updates>>

\* _put_item_to_cache, then "return data"
PutItemToCache(p) ==
    /\ call[p].pc = "gi_put"
    /\ LET f == call[p]
           doc == f.data[1]
       IN  IF ~redisUp
           THEN /\ call' = [call EXCEPT ![p] = Raise(f, "ConnectionError")]
                /\ UNCHANGED redis_str
           ELSE /\ redis_str' = RedisSet(index_name \o doc.id, json(doc), CACHE_EXPIRE_IN_SECONDS)
                /\ call' = [call EXCEPT ![p] = Return([f EXCEPT !.writes = @ + 1], f.data)]
    /\ UNCHANGED <<redis_list, now, es, redisUp, esUp, updates>>

(***************************************************************************)
(* _get_data                                                               *)
(***************************************************************************)
\* Variant of StartGetData: the key is derived from the service's own index
\* whatever the index_name argument
StartGetData_BoundKey(p, body, size, index) ==
    /\ CanStart(p)
    /\ LET effective == IF index = "" THEN index_name ELSE index
       IN  call' = [call EXCEPT ![p] =
                      [Idle EXCEPT !.pc = "gd_cache", !.op = "_get_data", !.body = body,
                                   !.size = size, !.index = effective,
                                   !.redis_key = _get_hash(body \o index_name),
                                   !.start = NumDone]]
    /\ Frame(p)

StartGetData(p, body, size, index) ==
    /\ CanStart(p)
    /\ LET effective == IF index = "" THEN index_name ELSE index
       IN  call' = [call EXCEPT ![p] =
                      [Idle EXCEPT !.pc = "gd_cache", !.op = "_get_data", !.body = body,
                                   !.size = size, !.index = effective,
                                   !.redis_key = _get_hash(body \o effective),
                                   !.start = NumDone]]
    /\ Frame(p)

RECURSIVE AllParseValid(_)
AllParseValid(items) ==
    IF items = <<>> THEN TRUE ELSE ParseValid(Head(items)) /\ AllParseValid(Tail(items))

RECURSIVE ParseAll(_)
ParseAll(items) ==
    IF items = <<>> THEN <<>> ELSE <<parse_raw(Head(items))>> \o ParseAll(Tail(items))

RECURSIVE AllModelValid(_)
AllModelValid(hits) ==
    IF hits = <<>> THEN TRUE ELSE ModelValid(Head(hits)._source) /\ AllModelValid(Tail(hits))

RECURSIVE ModelAll(_)
ModelAll(hits) ==
    IF hits = <<>> THEN <<>> ELSE <<Model(Head(hits)._source)>> \o ModelAll(Tail(hits))

RECURSIVE JsonAll(_)
JsonAll(docs) ==
    IF docs = <<>> THEN <<>> ELSE <<json(Head(docs))>> \o JsonAll(Tail(docs))

\* _get_full_data_from_cache, then the "if not data" of _get_data and, on a
\* hit, the parse_raw of every item and the return
DataFromCacheStep(f) ==
    IF ~redisUp THEN Raise(f, "ConnectionError")
    ELSE LET data == RedisLRange(f.redis_key, 0, f.size)
         IN  IF ~Truthy(data) THEN [f EXCEPT !.pc = "gd_elastic"]
             ELSE IF ~AllParseValid(data) THEN Raise(f, "ValidationError")
             ELSE Return([f EXCEPT !.hit = TRUE], ParseAll(data))

GetFullDataFromCache(p) ==
    /\ call[p].pc = "gd_cache"
    /\ call' = [call EXCEPT ![p] = DataFromCacheStep(call[p])]
    /\ Frame(p)

\* Variant of DataFromElasticStep: an empty hit list is returned as it is
DataFromElasticStep_NoEmptyCheck(f) ==
    LET g == [f EXCEPT !.esCalls = @ + 1]
        hits == EsSearch(f.index, f.body)
    IN  IF ~esUp THEN Raise(g, "ConnectionError")
        ELSE IF ~es[f.index].exists THEN ReturnNone(g)
        ELSE IF ~AllModelValid(hits) THEN Raise(g, "ValidationError")
        ELSE IF ~Truthy(ModelAll(hits)) THEN Return(g, <<>>)
        ELSE [g EXCEPT !.pc = "gd_put", !.data = ModelAll(hits)]

\* _get_data_from_elastic, then the "if not data: return None" of _get_data
DataFromElasticStep(f) ==
    LET g == [f EXCEPT !.esCalls = @ + 1]
        hits == EsSearch(f.index, f.body)
    IN  IF ~esUp THEN Raise(g, "ConnectionError")
        ELSE IF ~es[f.index].exists THEN ReturnNone(g)
        ELSE IF ~AllModelValid(hits) THEN Raise(g, "ValidationError")
        ELSE IF ~Truthy(ModelAll(hits)) THEN ReturnNone(g)
        ELSE [g EXCEPT !.pc = "gd_put", !.data = ModelAll(hits)]

GetDataFromElastic(p) ==
    /\ call[p].pc = "gd_elastic"
    /\ call' = [call EXCEPT ![p] = DataFromElasticStep(call[p])]
    /\ Frame(p)

\* Variant of PutFullDataToCache: the records are returned without the
\* cache write
PutFullDataToCache_NoWrite(p) ==
    /\ call[p].pc = "gd_put"
    /\ call' = [call EXCEPT ![p] = Return(call[p], call[p].data)]
    /\ UNCHANGED <<redis_str, redis_list, now, es, redisUp, esUp, updates>>

\* cache_data = [item.json() ...], _put_full_data_to_cache, then "return data"
PutFullDataToCache(p) ==
    /\ call[p].pc = "gd_put"
    /\ LET f == call[p]
       IN  IF ~redisUp
           THEN /\ call' = [call EXCEPT ![p] = Raise(f, "ConnectionError")]
                /\ UNCHANGED redis_list
           ELSE /\ redis_list' = RedisRPush(f.redis_key, JsonAll(f.data))
                /\ call' = [call EXCEPT ![p] = Return([f EXCEPT !.writes = @ + 1], f.data)]
    /\ UNCHANGED <<redis_str, now, es, redisUp, esUp, updates>>

(***************************************************************************)
(* The environment: the Redis clock and the backend's contents.            *)
(***************************************************************************)
Tick ==
    /\ now < MaxTicks * TickStep
    /\ now' = now + TickStep
    /\ redis_str' = Expire(now + TickStep)
    /\ UNCHANGED <<redis_list, es, redisUp, esUp, updates, call>>

BackendUpdate ==
    /\ updates < MaxUpdates
    /\ updates' = updates + 1
    /\ es' \in ElasticStates \ {es}
    /\ UNCHANGED <<redis_str, redis_list, now, redisUp, esUp, call>>

IdStep ==
    \/ \E p \in Procs, id \in DocIds : StartGetById(p, id)
    \/ \E p \in Procs : GetItemFromCache(p)
    \/ \E p \in Procs : GetItemFromElastic(p)
    \/ \E p \in Procs : PutItemToCache(p)

\* _get_data calls whose index_name argument is drawn from indexes
DataStepOn(indexes) ==
    \/ \E p \in Procs, body \in Bodies, size \in Sizes, index \in indexes :
          StartGetData(p, body, size, index)
    \/ \E p \in Procs : GetFullDataFromCache(p)
    \/ \E p \in Procs : GetDataFromElastic(p)
    \/ \E p \in Procs : PutFullDataToCache(p)

\* get_by_id calls against the clock and a changing backend
NextId == IdStep \/ Tick \/ BackendUpdate

SpecId == Init /\ [][NextId]_vars

\* _get_data calls on the service's own index
DataStep == DataStepOn({""})

\* _get_data calls against a changing backend (list keys carry no TTL)
NextData == DataStep \/ BackendUpdate

SpecData == Init /\ [][NextData]_vars

(***************************************************************************)
(* Faults: a store becomes unreachable, another writer leaves a payload     *)
(* in the cache that is not the JSON of a model, the backend holds a        *)
(* document that does not validate.                                         *)
(***************************************************************************)
Garbage == <<"garbage">>

Unparsable(key) == key \in DOMAIN redis_str /\ ~ParseValid(redis_str[key].value)

RECURSIVE CountBad(_)
CountBad(items) ==
    IF items = <<>> THEN 0
    ELSE (IF ParseValid(Head(items)) THEN 0 ELSE 1) + CountBad(Tail(items))

RECURSIVE SumBad(_)
SumBad(keys) ==
    IF keys = {} THEN 0
    ELSE LET k == CHOOSE x \in keys : TRUE
         IN  CountBad(redis_list[k]) + SumBad(keys \ {k})

\* the faults in effect
Faults ==
    (IF redisUp THEN 0 ELSE 1) + (IF esUp THEN 0 ELSE 1) + (IF es = EsBad THEN 1 ELSE 0)
    + Cardinality({k \in DOMAIN redis_str : Unparsable(k)}) + SumBad(DOMAIN redis_list)

RedisFault ==
    /\ Faults < MaxFaults
    /\ redisUp
    /\ redisUp' = FALSE
    /\ UNCHANGED <<redis_str, redis_list, now, es, esUp, updates, call>>

ElasticFault ==
    /\ Faults < MaxFaults
    /\ esUp
    /\ esUp' = FALSE
    /\ UNCHANGED <<redis_str, redis_list, now, es, redisUp, updates, call>>

CacheCorrupt(id, payload) ==
    /\ Faults < MaxFaults
    /\ ItemKey(id) \notin DOMAIN redis_str
    /\ redis_str' = RedisSet(ItemKey(id), payload, CACHE_EXPIRE_IN_SECONDS)
    /\ UNCHANGED <<redis_list, now, es, redisUp, esUp, updates, call>>

ListCorrupt(body) ==
    /\ Faults < MaxFaults
    /\ _get_hash(body \o index_name) \notin DOMAIN redis_list
    /\ redis_list' = RedisRPush(_get_hash(body \o index_name), <<Garbage>>)
    /\ UNCHANGED <<redis_str, now, es, redisUp, esUp, updates, call>>

BackendCorrupt ==
    /\ Faults < MaxFaults
    /\ es # EsBad
    /\ es' = EsBad
    /\ UNCHANGED <<redis_str, redis_list, now, redisUp, esUp, updates, call>>

NextFault ==
    \/ IdStep
    \/ DataStep
    \/ RedisFault
    \/ ElasticFault
    \/ \E id \in DocIds, payload \in {NoData, Garbage} : CacheCorrupt(id, payload)
    \/ \E body \in Bodies : ListCorrupt(body)
    \/ BackendCorrupt

SpecFault == Init /\ [][NextFault]_vars

(***************************************************************************)
(* Runs of both operations with a bounded number of calls.                 *)
(***************************************************************************)
\* the calls started so far
Started == Cardinality({p \in Procs : call[p].pc # "idle"})

\* get_by_id and _get_data (on the service's own index), at most MaxCalls
\* calls in a run
CallStep ==
    \/ \E p \in Procs, id \in DocIds : Started < MaxCalls /\ StartGetById(p, id)
    \/ \E p \in Procs, body \in Bodies, size \in Sizes :
          Started < MaxCalls /\ StartGetData(p, body, size, "")
    \/ \E p \in Procs : GetItemFromCache(p)
    \/ \E p \in Procs : GetItemFromElastic(p)
    \/ \E p \in Procs : PutItemToCache(p)
    \/ \E p \in Procs : GetFullDataFromCache(p)
    \/ \E p \in Procs : GetDataFromElastic(p)
    \/ \E p \in Procs : PutFullDataToCache(p)

\* both operations against the clock, at most MaxCalls calls in a run, the
\* clock of a backend request kept until the cache write
NextCache ==
    \/ \E p \in Procs, id \in DocIds : Started < MaxCalls /\ StartGetById(p, id)
    \/ \E p \in Procs, body \in Bodies, size \in Sizes :
          Started < MaxCalls /\ StartGetData(p, body, size, "")
    \/ \E p \in Procs : GetItemFromCache(p)
    \/ \E p \in Procs : GetItemFromElasticTimed(p)
    \/ \E p \in Procs : PutItemToCache(p)
    \/ \E p \in Procs : GetFullDataFromCache(p)
    \/ \E p \in Procs : GetDataFromElastic(p)
    \/ \E p \in Procs : PutFullDataToCache(p)
    \/ Tick

SpecCache == Init /\ [][NextCache]_vars

\* both operations against a changing backend
NextAbsent == CallStep \/ BackendUpdate

SpecAbsent == Init /\ [][NextAbsent]_vars

\* both operations under faults
NextOutcome ==
    \/ CallStep
    \/ RedisFault
    \/ ElasticFault
    \/ \E id \in DocIds, payload \in {NoData, Garbage} : CacheCorrupt(id, payload)
    \/ \E body \in Bodies : ListCorrupt(body)
    \/ BackendCorrupt

SpecOutcome == Init /\ [][NextOutcome]_vars

\* _get_data calls with and without an index_name argument, at most
\* MaxCalls calls in a run
NextOverride ==
    \/ \E p \in Procs, body \in Bodies, size \in Sizes, index \in IndexArgs :
          Started < MaxCalls /\ StartGetData(p, body, size, index)
    \/ \E p \in Procs : GetFullDataFromCache(p)
    \/ \E p \in Procs : GetDataFromElastic(p)
    \/ \E p \in Procs : PutFullDataToCache(p)

SpecOverride == Init /\ [][NextOverride]_vars

Next == IdStep \/ DataStepOn(IndexArgs) \/ Tick \/ BackendUpdate

Spec == Init /\ [][Next]_vars

(***************************************************************************)
(* Properties                                                              *)
(***************************************************************************)
IdCall(p) == call[p].op = "get_by_id"
DataCall(p) == call[p].op = "_get_data"

\* the call of p ends in this step
Ends(p) == call[p].pc # "done" /\ call'[p].pc = "done"

\* the fields of a source as a record and as a payload
AsRecord(source) == [id |-> source.id, name |-> source.name]
AsPayload(source) == <<source.id, source.name>>

\* C1 - Cache precedence: a get_by_id that reads the cache while the key
\* partition+id holds a record and the backend holds a document of that id
\* with a different payload returns the cached record and makes no backend
\* call.
C1_CachePrecedence ==
    [][\A p \in Procs :
         LET key == "genres" \o call[p].doc_id
         IN  ( /\ call[p].pc = "gi_cache" /\ call'[p] # call[p]
               /\ redisUp
               /\ key \in DOMAIN redis_str /\ Len(redis_str[key].value) = 2
               /\ \E d \in EsGet("genres", call[p].doc_id) :
                     AsPayload(d._source) # redis_str[key].value )
             => ( /\ call'[p].pc = "done"
                  /\ call'[p].outcome = "returned"
                  /\ call'[p].data = <<[id |-> redis_str[key].value[1],
                                        name |-> redis_str[key].value[2]]>>
                  /\ call'[p].esCalls = 0 )]_vars

\* a call was served a cached record that differs from the backend's document
C1_Witness ==
    \E p \in Procs :
        /\ Done(p) /\ IdCall(p) /\ call[p].hit /\ call[p].esCalls = 0
        /\ \E d \in EsGet("genres", call[p].doc_id) : AsRecord(d._source) # call[p].data[1]

\* the completed call that last wrote the cache for the id of q before q ended
Writers(id) == {w \in Procs : Done(w) /\ IdCall(w) /\ call[w].doc_id = id /\ call[w].writes = 1}

LastWriter(id) == CHOOSE w \in Writers(id) : \A v \in Writers(id) : call[v].ord <= call[w].ord

\* a get_by_id that missed and fetched from the backend leaves the
\* serialized record under partition+id
Populates ==
    \A p \in Procs :
        (call[p].pc = "gi_put" /\ Ends(p) /\ call'[p].outcome = "returned")
        => LET key == "genres" \o call[p].doc_id
           IN  /\ key \in DOMAIN redis_str'
               /\ redis_str'[key].value = <<call'[p].data[1].id, call'[p].data[1].name>>

\* C2 as stated - Population-on-miss: after a get_by_id that missed and
\* fetched from the backend the cache holds the serialized record under
\* partition+id, and every get_by_id for that id started later and reading
\* within the TTL window returns the same record without a backend call.
C2_Original ==
    [][ /\ Populates
        /\ \A q \in Procs : \A p \in Procs :
             ( /\ Ends(q) /\ call[q].op = "get_by_id"
               /\ Done(p) /\ IdCall(p) /\ call[p].writes = 1
               /\ call[p].doc_id = call[q].doc_id
               /\ call[p].ord <= call[q].start
               /\ now < call[p].at + 300 )
             => ( /\ call'[q].outcome = "returned"
                  /\ call'[q].esCalls = 0
                  /\ call'[q].data = call[p].data ) ]_vars

\* C2 as amended: the later get_by_id is served from the cache without a
\* backend call and returns the record last written under the key, which is
\* the record of the populating call unless another call that had also
\* missed wrote the key after it.
C2_PopulationOnMiss ==
    [][ /\ Populates
        /\ \A q \in Procs : \A p \in Procs :
             ( /\ Ends(q) /\ call[q].op = "get_by_id"
               /\ Done(p) /\ IdCall(p) /\ call[p].writes = 1
               /\ call[p].doc_id = call[q].doc_id
               /\ call[p].ord <= call[q].start
               /\ now < call[p].at + 300 )
             => ( /\ call'[q].outcome = "returned"
                  /\ call'[q].esCalls = 0
                  /\ call'[q].data = call[LastWriter(call[q].doc_id)].data
                  /\ (LastWriter(call[q].doc_id) = p => call'[q].data = call[p].data) ) ]_vars

\* a call populated the cache and a call started after it was served that
\* record from the cache
C2_Witness ==
    \E p \in Procs, q \in Procs :
        /\ Done(p) /\ Done(q) /\ IdCall(p) /\ IdCall(q)
        /\ call[p].doc_id = call[q].doc_id
        /\ call[p].writes = 1 /\ call[p].ord <= call[q].start
        /\ call[q].hit /\ call[q].esCalls = 0 /\ call[q].data = call[p].data
        /\ ("genres" \o call[p].doc_id) \in DOMAIN redis_str

\* C3 - Absent propagation by identifier: a get_by_id that missed the cache
\* and whose backend get reports not-found returns None, raises nothing, and
\* genre_details answers not-found.
C3_AbsentById ==
    [][\A p \in Procs :
         ( /\ call[p].pc = "gi_elastic" /\ call'[p] # call[p]
           /\ esUp
           /\ (~es["genres"].exists \/ EsGet("genres", call[p].doc_id) = {}) )
         => ( /\ ~call[p].hit
              /\ call'[p].pc = "done"
              /\ call'[p].outcome = "None"
              /\ call'[p].exc = ""
              /\ call'[p].response = "HTTPStatus.NOT_FOUND" )]_vars

\* a get_by_id ended with None after the backend reported not-found
C3_Witness ==
    \E p \in Procs :
        /\ Done(p) /\ IdCall(p) /\ call[p].outcome = "None" /\ call[p].esCalls = 1
        /\ ~call[p].hit /\ call[p].response = "HTTPStatus.NOT_FOUND"

Prefix(seq, n) == SubSeq(seq, 1, IF n < Len(seq) THEN n ELSE Len(seq))

C5_BoundedRead ==
    \A p \in Procs :
        (Done(p) /\ DataCall(p) /\ call[p].outcome = "returned")
        => Len(call[p].data) <= call[p].size

Range(seq) == {seq[i] : i \in 1..Len(seq)}

Pos(x, seq) == CHOOSE i \in 1..Len(seq) : seq[i] = x

\* the records of r appear in s, in the order of s
SameOrder(r, s) ==
    /\ Range(r) \subseteq Range(s)
    /\ \A i \in 1..Len(r) : \A j \in 1..Len(r) : i < j => Pos(r[i], s) < Pos(r[j], s)

\* C6 as stated - Order preservation: when the backend search of a
\* _get_data returned a sequence of records, every later _get_data of the
\* same query that is served from the cache returns records in the order of
\* that sequence.
C6_OrderPreservation ==
    \A p \in Procs, q \in Procs :
        ( /\ Done(p) /\ Done(q) /\ DataCall(p) /\ DataCall(q)
          /\ call[p].redis_key = call[q].redis_key
          /\ call[p].outcome = "returned" /\ ~call[p].hit
          /\ call[q].outcome = "returned" /\ call[q].hit
          /\ call[p].ord < call[q].ord )
        => SameOrder(call[q].data, call[p].data)

RECURSIVE AnyUnparsable(_)
AnyUnparsable(items) ==
    IF items = <<>> THEN FALSE ELSE Len(Head(items)) # 2 \/ AnyUnparsable(Tail(items))

RECURSIVE AnyInvalid(_)
AnyInvalid(hits) ==
    IF hits = <<>> THEN FALSE
    ELSE ~({"id", "name"} \subseteq DOMAIN Head(hits)._source) \/ AnyInvalid(Tail(hits))

\* the step p is about to take meets a transport failure or a payload that
\* does not deserialize
FailureAhead(p) ==
    LET f == call[p]
    IN  \/ f.pc \in {"gi_cache", "gi_put", "gd_cache", "gd_put"} /\ ~redisUp
        \/ f.pc \in {"gi_elastic", "gd_elastic"} /\ ~esUp
        \/ /\ f.pc = "gi_cache"
           /\ ("genres" \o f.doc_id) \in DOMAIN redis_str
           /\ Len(redis_str["genres" \o f.doc_id].value) # 2
        \/ /\ f.pc = "gi_elastic" /\ es["genres"].exists
           /\ \E d \in EsGet("genres", f.doc_id) : ~({"id", "name"} \subseteq DOMAIN d._source)
        \/ /\ f.pc = "gd_cache"
           /\ AnyUnparsable(RedisLRange(f.redis_key, 0, f.size))
        \/ /\ f.pc = "gd_elastic" /\ es[f.index].exists
           /\ AnyInvalid(EsSearch(f.index, f.body))

\* C7 as stated - Failure propagation: a step of get_by_id or _get_data that
\* meets a transport failure, or a raw payload from the cache or the backend
\* that does not deserialize, ends the call with an exception; the call
\* neither goes on nor returns None or a record.
C7_FailurePropagation ==
    [][\A p \in Procs :
         (call'[p] # call[p] /\ FailureAhead(p))
         => (call'[p].pc = "done" /\ call'[p].outcome = "raised")]_vars

\* C8 - TTL expiry of single entries: the entry written by get_by_id
\* expires 300 seconds after the write and holds the record right after it;
\* the cache holds no entry whose TTL has elapsed; an entry changes only by
\* such a write; a get_by_id that finds no entry goes to the backend.
C8_TTLExpiry ==
    [][ /\ \A p \in Procs :
             (call[p].pc = "gi_put" /\ Ends(p) /\ call'[p].outcome = "returned")
             => LET key == "genres" \o call[p].doc_id
                IN  /\ key \in DOMAIN redis_str'
                    /\ redis_str'[key].expireAt = now + 300
                    /\ redis_str'[key].value = <<call[p].data[1].id, call[p].data[1].name>>
        /\ \A k \in DOMAIN redis_str' : now' < redis_str'[k].expireAt
        /\ \A k \in DOMAIN redis_str :
              (k \notin DOMAIN redis_str' \/ redis_str'[k] = redis_str[k])
              \/ \E p \in Procs : call[p].pc = "gi_put" /\ Ends(p)
        /\ \A p \in Procs :
             ( /\ call[p].pc = "gi_cache" /\ call'[p] # call[p]
               /\ ("genres" \o call[p].doc_id) \notin DOMAIN redis_str )
             => (call'[p].pc = "gi_elastic" /\ call'[p].esCalls = 0) ]_vars

\* an entry was written, its TTL elapsed, and a later get_by_id for the id
\* fetched from the backend again
C8_Witness ==
    \E p \in Procs, q \in Procs :
        /\ Done(p) /\ Done(q) /\ IdCall(p) /\ IdCall(q)
        /\ call[p].doc_id = call[q].doc_id
        /\ call[p].writes = 1 /\ call[p].ord <= call[q].start
        /\ call[q].esCalls = 1 /\ ~call[q].hit /\ call[q].outcome = "returned"
        /\ call[q].at >= call[p].at + 300

\* two calls overlap in time
Overlap(p, q) == call[p].start < call[q].ord /\ call[q].start < call[p].ord

\* C9 - Idempotent population under races: while the backend is unchanged,
\* every completed get_by_id returned the backend's record for its id (None
\* when the backend has none), the cache holds entries only under the keys
\* partition+id of populating calls, each the serialization of the backend's
\* record with the TTL of a populating write, and the entry of a populating
\* call is there until its TTL elapses.
C9_IdempotentPopulation ==
    updates = 0 =>
      /\ \A p \in Procs :
           (Done(p) /\ IdCall(p)) =>
             LET found == EsGet("genres", call[p].doc_id)
                 key == "genres" \o call[p].doc_id
             IN  IF es["genres"].exists /\ found # {}
                 THEN /\ call[p].outcome = "returned"
                      /\ \A d \in found : call[p].data = <<AsRecord(d._source)>>
                      /\ (call[p].writes = 1 /\ now < call[p].at + 300)
                            => key \in DOMAIN redis_str
                 ELSE /\ call[p].outcome = "None"
                      /\ key \notin DOMAIN redis_str
      /\ \A k \in DOMAIN redis_str :
           \E w \in Procs :
              /\ Done(w) /\ IdCall(w) /\ call[w].writes = 1
              /\ k = "genres" \o call[w].doc_id
              /\ redis_str[k].expireAt = call[w].at + 300
              /\ \A d \in EsGet("genres", call[w].doc_id) :
                    redis_str[k].value = AsPayload(d._source)

\* two overlapping calls for one id both missed and both wrote the cache
C9_Witness ==
    /\ updates = 0
    /\ \E p \in Procs, q \in Procs :
         /\ p # q /\ Done(p) /\ Done(q) /\ IdCall(p) /\ IdCall(q)
         /\ call[p].doc_id = call[q].doc_id
         /\ call[p].writes = 1 /\ call[q].writes = 1
         /\ Overlap(p, q)
         /\ ("genres" \o call[p].doc_id) \in DOMAIN redis_str

\* C10 - Absent for queries: a _get_data ends with None exactly when its
\* cache read was empty and its backend search reports not-found or yields
\* no hit; a _get_data that returns otherwise returns a non-empty sequence.
C10_AbsentForQueries ==
    [][\A p \in Procs :
         (Ends(p) /\ call[p].op = "_get_data" /\ call'[p].outcome # "raised")
         => /\ call'[p].outcome = "None"
                 <=> ( /\ call[p].pc = "gd_elastic" /\ ~call[p].hit
                       /\ (~es[call[p].index].exists
                              \/ EsSearch(call[p].index, call[p].body) = <<>>) )
            /\ call'[p].outcome # "None"
                 => (call'[p].outcome = "returned" /\ Len(call'[p].data) > 0)
            /\ call[p].pc = "gd_cache"
                 => (call'[p].hit /\ RedisLRange(call[p].redis_key, 0, call[p].size) # <<>>)
            /\ call[p].pc # "gd_cache" => ~call'[p].hit ]_vars

\* a _get_data ended with None after an empty cache read and a search of an
\* existing index that had no hit
C10_Witness ==
    \E p \in Procs :
        /\ Done(p) /\ DataCall(p) /\ call[p].outcome = "None"
        /\ call[p].esCalls = 1 /\ ~call[p].hit
        /\ es[call[p].index].exists

\* a _get_data returned a non-empty sequence from the cache
C10_WitnessHit ==
    \E p \in Procs :
        Done(p) /\ DataCall(p) /\ call[p].outcome = "returned" /\ call[p].hit

\* the old sequence is the beginning of the new one
Extends(new, old) == Len(new) >= Len(old) /\ SubSeq(new, 1, Len(old)) = old

\* C11 - No deletion by the service: a step of get_by_id or _get_data
\* removes no cache key and shortens no cached list (a list changes only by
\* growing at its end); a string key leaves the cache only in a step of the
\* clock that reaches its expiry time.
C11_NoDeletion ==
    [][ /\ (\E p \in Procs : call'[p] # call[p])
           => /\ \A k \in DOMAIN redis_str : k \in DOMAIN redis_str'
              /\ \A k \in DOMAIN redis_list :
                    k \in DOMAIN redis_list' /\ Extends(redis_list'[k], redis_list[k])
        /\ \A k \in DOMAIN redis_str :
              k \notin DOMAIN redis_str'
              => (call' = call /\ now' > now /\ redis_str[k].expireAt <= now')
        /\ \A k \in DOMAIN redis_list : k \in DOMAIN redis_list' ]_vars

\* a get_by_id left its entry, a _get_data that ran after it wrote a list,
\* and the entry is still there
C11_Witness ==
    \E p \in Procs, r \in Procs :
        /\ Done(p) /\ IdCall(p) /\ call[p].writes = 1
        /\ Done(r) /\ DataCall(r) /\ call[r].writes = 1 /\ call[p].ord <= call[r].start
        /\ ("genres" \o call[p].doc_id) \in DOMAIN redis_str
        /\ call[r].redis_key \in DOMAIN redis_list

\* the payloads of the documents the backend holds under an id
BackendPayloads(id) == {<<d._source.id, d._source.name>> : d \in EsGet("genres", id)}

\* C12 - Single-entry validity: with the cache initially empty and written
\* only by get_by_id, every string key is partition+id for an id; its value
\* deserializes into a record (both fields present) whose identifier is id;
\* the value is the record a completed get_by_id for id obtained from the
\* backend, which was the backend's document for id when that call read it
\* and is what that call put into the cache.
C12_SingleEntryValidity ==
    [][ /\ \A k \in DOMAIN redis_str' :
             \E id \in {"g1"} :
                /\ k = "genres" \o id
                /\ Len(redis_str'[k].value) = 2
                /\ redis_str'[k].value[1] = id
                /\ \E w \in Procs :
                      /\ call'[w].pc = "done" /\ call'[w].op = "get_by_id"
                      /\ call'[w].doc_id = id
                      /\ call'[w].esCalls = 1 /\ call'[w].writes = 1
                      /\ redis_str'[k].value = <<call'[w].data[1].id, call'[w].data[1].name>>
        /\ \A p \in Procs :
             (call[p].pc = "gi_elastic" /\ call'[p].pc = "gi_put")
             => <<call'[p].data[1].id, call'[p].data[1].name>> \in BackendPayloads(call[p].doc_id)
        /\ \A p \in Procs :
             (call[p].pc = "gi_put" /\ call'[p].writes = 1)
             => /\ call'[p].data = call[p].data
                /\ redis_str'["genres" \o call[p].doc_id].value
                      = <<call[p].data[1].id, call[p].data[1].name>> ]_vars

\* the cache holds an entry for an id that is no longer the backend's
\* document for that id
C12_Witness ==
    \E id \in {"g1"} :
        /\ ("genres" \o id) \in DOMAIN redis_str
        /\ redis_str["genres" \o id].value \notin BackendPayloads(id)
        /\ \E w \in Procs : Done(w) /\ IdCall(w) /\ call[w].doc_id = id /\ call[w].writes = 1

\* C13 as stated - Existence check on the derived key: the existence check
\* and the value read of get_by_id both use the key partition+id, the value
\* is read only when the key is present, and with the key absent the call
\* goes to the backend without a value read.
C13_ExistenceCheck ==
    [][\A p \in Procs :
         (call[p].pc = "gi_cache" /\ call'[p] # call[p])
         => LET key == "genres" \o call[p].doc_id
            IN  /\ call'[p].exists_key = key
                /\ call'[p].get_key \in {"", key}
                /\ call'[p].get_key = key => key \in DOMAIN redis_str
                /\ key \notin DOMAIN redis_str
                      => (call'[p].pc = "gi_elastic" /\ call'[p].get_key = "") ]_vars

\* the cache key of a match_all query on an index
KeyOf(index) == IF index = "movies" THEN "-4412" ELSE "7301"

\* the index a cache key of a match_all query belongs to
IndexOf(key) == IF key = "-4412" THEN "movies" ELSE "genres"

\* the documents of a sequence as records of the service's model
RecordsOf(docs) == [i \in 1..Len(docs) |-> AsRecord(docs[i]._source)]

\* C14 - Partition override isolation: a _get_data works on the effective
\* index (the index_name argument, else the service's own), its cache key
\* is the hash of body + effective index, and its search is scoped to that
\* index; calls with the same body and different effective indexes read and
\* append to different lists, so a list holds payloads of its own index
\* only; every record returned is of the service's model (id and name),
\* whichever index it came from.
C14_OverrideIsolation ==
    [][ /\ \A p \in Procs :
             /\ (call[p].pc = "idle" /\ call'[p].op = "_get_data")
                => /\ call'[p].index \in {"genres", "movies"}
                   /\ call'[p].redis_key = KeyOf(call'[p].index)
             /\ (call[p].pc = "gd_cache" /\ call'[p].hit)
                => call'[p].data
                     = [i \in 1..Len(Prefix(redis_list[KeyOf(call[p].index)], call[p].size + 1)) |->
                          [id |-> redis_list[KeyOf(call[p].index)][i][1],
                           name |-> redis_list[KeyOf(call[p].index)][i][2]]]
             /\ (call[p].pc = "gd_elastic" /\ call'[p].pc = "gd_put")
                => call'[p].data = RecordsOf(es[call[p].index].docs)
             /\ (call[p].pc = "gd_put" /\ call'[p] # call[p])
                => \A k \in DOMAIN redis_list' :
                      k # KeyOf(call[p].index)
                      => (k \in DOMAIN redis_list /\ redis_list'[k] = redis_list[k])
             /\ \A i \in 1..Len(call'[p].data) : DOMAIN call'[p].data[i] = {"id", "name"}
        /\ \A p \in Procs, q \in Procs :
             ( /\ call'[p].op = "_get_data" /\ call'[q].op = "_get_data"
               /\ call'[p].body = call'[q].body /\ call'[p].index # call'[q].index )
             => call'[p].redis_key # call'[q].redis_key
        /\ \A k \in DOMAIN redis_list' :
             /\ k \in {"7301", "-4412"}
             /\ \A i \in 1..Len(redis_list'[k]) :
                   \E d \in Range(es[IndexOf(k)].docs) :
                      redis_list'[k][i] = AsPayload(d._source) ]_vars

\* a call on the service's own index filled its list; a call with the same
\* body on the movies index that started after it missed the cache, searched
\* the movies index and filled a list of its own
C14_Witness ==
    \E p \in Procs, q \in Procs :
        /\ Done(p) /\ Done(q) /\ DataCall(p) /\ DataCall(q)
        /\ call[p].body = call[q].body
        /\ call[p].index = "genres" /\ call[p].writes = 1
        /\ call[q].index = "movies" /\ call[q].writes = 1
        /\ call[p].ord <= call[q].start
        /\ ~call[q].hit /\ call[q].esCalls = 1
        /\ call[q].data = RecordsOf(es["movies"].docs)
        /\ redis_list["7301"] # redis_list["-4412"]

\* a call on the movies index was served from the list of the movies index
C14_WitnessHit ==
    \E q \in Procs, r \in Procs :
        /\ Done(q) /\ Done(r) /\ DataCall(q) /\ DataCall(r)
        /\ call[q].index = "movies" /\ call[q].writes = 1
        /\ call[r].index = "movies" /\ call[r].hit
        /\ call[r].data = RecordsOf(es["movies"].docs)

\* C15 - No retries: a call issues at most one backend request and makes at
\* most one cache write, whatever its outcome; a call served from the cache
\* issues none, a call that ends with None has issued one request and
\* written nothing; each step issues at most one request and one write, and
\* a call that has ended, by a failure or otherwise, takes no further step.
C15_NoRetries ==
    [][\A p \in Procs :
         /\ call'[p].esCalls \in {call[p].esCalls, call[p].esCalls + 1}
         /\ call'[p].writes \in {call[p].writes, call[p].writes + 1}
         /\ call'[p].esCalls <= 1
         /\ call'[p].writes <= 1
         /\ call'[p].hit => (call'[p].esCalls = 0 /\ call'[p].writes = 0)
         /\ call'[p].outcome = "None" => (call'[p].esCalls = 1 /\ call'[p].writes = 0)
         /\ call'[p].writes = 1 => call'[p].esCalls = 1
         /\ call[p].pc = "done" => call'[p] = call[p] ]_vars

\* a call ended with a transport failure of its one backend request
C15_Witness ==
    \E p \in Procs :
        /\ Done(p) /\ call[p].outcome = "raised" /\ call[p].exc = "ConnectionError"
        /\ call[p].esCalls = 1 /\ call[p].writes = 0 /\ ~esUp

\* C16 as stated - No duplicated collection entries under races: while the
\* backend is unchanged, the list under the key of a query holds the payload
\* of each backend hit of the query exactly once, in the backend's order,
\* however the _get_data calls of that query interleave.
C16_NoDuplicates ==
    updates = 0 =>
      \A p \in Procs :
         (DataCall(p) /\ call[p].redis_key \in DOMAIN redis_list)
         => LET hits == EsSearch(call[p].index, call[p].body)
            IN  redis_list[call[p].redis_key]
                  = [i \in 1..Len(hits) |-> AsPayload(hits[i]._source)]

\* the calls p and q ask for the same thing: the same id, or the same query
\* on the same index
SameRequest(p, q) ==
    /\ call[p].op = call[q].op
    /\ call[p].doc_id = call[q].doc_id
    /\ call[p].body = call[q].body
    /\ call[p].index = call[q].index

\* q started after a call for the same thing had ended with None, and no
\* call for it has written the cache
AfterAbsent(q) ==
    /\ \E p \in Procs :
          /\ p # q /\ Done(p) /\ call[p].outcome = "None"
          /\ SameRequest(p, q) /\ call[p].ord <= call[q].start
    /\ \A r \in Procs : SameRequest(r, q) => call[r].writes = 0

\* C17 - Negative results are not cached: the step in which a get_by_id or
\* _get_data ends with None leaves the cache as it was, and the call has
\* written nothing; a later call for the same id or query (no call having
\* written its key) misses the cache and consults the backend, and when the
\* backend by then holds the data it returns the backend's records.
C17_NegativeNotCached ==
    [][\A q \in Procs :
         /\ (Ends(q) /\ call'[q].outcome = "None")
            => ( /\ redis_str' = redis_str /\ redis_list' = redis_list
                 /\ call'[q].writes = 0 )
         /\ (call[q].pc \in {"gi_cache", "gd_cache"} /\ call'[q] # call[q] /\ AfterAbsent(q))
            => ( /\ call'[q].pc \in {"gi_elastic", "gd_elastic"}
                 /\ ~call'[q].hit )
         /\ ( /\ call[q].pc = "gi_elastic" /\ call'[q] # call[q] /\ AfterAbsent(q)
              /\ es["genres"].exists /\ EsGet("genres", call[q].doc_id) # {} )
            => ( /\ call'[q].pc = "gi_put" /\ call'[q].esCalls = 1
                 /\ \A d \in EsGet("genres", call[q].doc_id) :
                       call'[q].data = <<AsRecord(d._source)>> )
         /\ ( /\ call[q].pc = "gd_elastic" /\ call'[q] # call[q] /\ AfterAbsent(q)
              /\ es[call[q].index].exists /\ EsSearch(call[q].index, call[q].body) # <<>> )
            => ( /\ call'[q].pc = "gd_put" /\ call'[q].esCalls = 1
                 /\ call'[q].data
                      = [i \in 1..Len(EsSearch(call[q].index, call[q].body)) |->
                           AsRecord(EsSearch(call[q].index, call[q].body)[i]._source)] )
         /\ (call[q].pc \in {"gi_put", "gd_put"} /\ call'[q] # call[q] /\ AfterAbsent(q))
            => ( /\ call'[q].pc = "done" /\ call'[q].outcome = "returned"
                 /\ call'[q].data = call[q].data /\ Len(call'[q].data) > 0 ) ]_vars

\* a get_by_id ended with None, the backend then gained the document, and a
\* get_by_id for the id that started later fetched it from the backend
C17_Witness ==
    \E p \in Procs, q \in Procs :
        /\ Done(p) /\ Done(q) /\ IdCall(p) /\ IdCall(q)
        /\ call[p].doc_id = call[q].doc_id
        /\ call[p].outcome = "None" /\ call[p].ord <= call[q].start
        /\ call[q].outcome = "returned" /\ call[q].esCalls = 1 /\ ~call[q].hit
        /\ updates = 1

\* the same for two _get_data calls of one query
C17_WitnessQuery ==
    \E p \in Procs, q \in Procs :
        /\ Done(p) /\ Done(q) /\ DataCall(p) /\ DataCall(q)
        /\ call[p].redis_key = call[q].redis_key
        /\ call[p].outcome = "None" /\ call[p].ord <= call[q].start
        /\ call[q].outcome = "returned" /\ call[q].esCalls = 1 /\ ~call[q].hit
        /\ updates = 1

\* a call served from the cache leaves the cache as it was and writes
\* nothing
HitsDoNotWrite ==
    \A q \in Procs :
        (call[q].pc \in {"gi_cache", "gd_cache"} /\ call'[q].hit)
        => ( /\ redis_str' = redis_str /\ redis_list' = redis_list
             /\ call'[q].writes = 0 /\ call'[q].pc = "done" )

\* C18 as stated - Cache hits do not write: a call served from the cache
\* writes nothing and resets no TTL, and a single entry expires at most 300
\* seconds after the backend read that populated it.
C18_Original ==
    [][ /\ HitsDoNotWrite
        /\ \A w \in Procs :
              (call[w].pc = "gi_put" /\ call'[w].writes = 1)
              => redis_str'["genres" \o call[w].doc_id].expireAt <= call[w].read_at + 300 ]_vars

\* C18 as amended: a call served from the cache writes nothing and resets
\* no TTL; a single entry changes only in the writing step of a get_by_id
\* that fetched from the backend, and expires 300 seconds after the last
\* such write (the write can come later than the backend read).
C18_HitsDoNotWrite ==
    [][ /\ HitsDoNotWrite
        /\ \A k \in DOMAIN redis_str' :
              \/ (k \in DOMAIN redis_str /\ redis_str'[k] = redis_str[k])
              \/ \E w \in Procs :
                    /\ call[w].pc = "gi_put" /\ call'[w].pc = "done"
                    /\ ~call[w].hit /\ call[w].esCalls = 1 /\ call'[w].writes = 1
                    /\ k = "genres" \o call[w].doc_id
                    /\ redis_str'[k].expireAt = now + 300
                    /\ call[w].read_at <= now
        /\ \A k \in DOMAIN redis_str' : now' < redis_str'[k].expireAt
        /\ \A k \in DOMAIN redis_str' :
              \E w \in Procs :
                 /\ call'[w].pc = "done" /\ call'[w].writes = 1
                 /\ k = "genres" \o call'[w].doc_id
                 /\ redis_str'[k].expireAt = call'[w].at + 300 ]_vars

\* an entry was read from the cache after time had passed since its write,
\* and its expiry is still 300 seconds after the write
C18_Witness ==
    \E w \in Procs, q \in Procs :
        /\ Done(w) /\ Done(q) /\ IdCall(w) /\ IdCall(q)
        /\ call[w].doc_id = call[q].doc_id
        /\ call[w].writes = 1 /\ call[q].hit /\ call[q].writes = 0
        /\ call[q].at > call[w].at
        /\ ("genres" \o call[w].doc_id) \in DOMAIN redis_str
        /\ redis_str["genres" \o call[w].doc_id].expireAt = call[w].at + 300

\* a _get_data was served from the cache and the list is as its writer
\* left it
C18_WitnessQuery ==
    \E w \in Procs, q \in Procs :
        /\ Done(w) /\ Done(q) /\ DataCall(w) /\ DataCall(q)
        /\ call[w].redis_key = call[q].redis_key
        /\ call[w].writes = 1 /\ call[q].hit /\ call[q].writes = 0
        /\ Len(redis_list[call[w].redis_key]) = Len(call[w].data)

====
